---- MODULE Spec2Model ----
(***************************************************************************)
(* State-sync storage service response types                               *)
(* (state-sync/storage-service/types/src/responses.rs):                    *)
(*   - CompleteDataRange<T>: the invariant-checked contiguous range,       *)
(*   - DataSummary / StorageServerSummary: the serviceability predicate,   *)
(*   - StorageServiceResponse / DataResponse: the response envelope and    *)
(*     its typed extraction.                                               *)
(*                                                                         *)
(* The unsigned integer type T (u64 in the code: Version, Epoch) is        *)
(* modelled as an unsigned integer of IntBytes bytes, so that its          *)
(* checked/overflowing arithmetic and its little-endian wire encoding are  *)
(* kept while the values stay inside TLC's integers.                       *)
(***************************************************************************)
EXTENDS Integers, Sequences, FiniteSets, TLC

VARIABLES cur, cur_by, call, ret,
          summary, request, serviceable,
          envelope, env_from, env_call, env_ret

vars == <<cur, cur_by, call, ret, summary, request, serviceable,
          envelope, env_from, env_call, env_ret>>

range_vars == <<cur, cur_by, call, ret>>
service_vars == <<summary, request, serviceable>>
envelope_vars == <<envelope, env_from, env_call, env_ret>>

(***************************************************************************)
(* Bounds                                                                  *)
(***************************************************************************)
\* Number of bytes of the modelled unsigned integer type (8 for u64).
IntBytes == 2

\* The byte budget of one message (MAX_APPLICATION_MESSAGE_SIZE of
\* aptos_config), scaled to the size of the modelled payloads.
MAX_APPLICATION_MESSAGE_SIZE == 64

(***************************************************************************)
(* Option and Result                                                       *)
(***************************************************************************)
None == <<>>
Some(x) == <<x>>
IsSome(o) == o # <<>>
Unwrap(o) == o[1]

Ok(v) == [ok |-> TRUE, val |-> v]
Err(e) == [ok |-> FALSE, err |-> e]

DegenerateRangeError == "DegenerateRangeError"

(***************************************************************************)
(* The unsigned integer type T                                             *)
(***************************************************************************)
RECURSIVE Pow256(_)
Pow256(n) == IF n = 0 THEN 1 ELSE 256 * Pow256(n - 1)

\* T::MAX
T_MAX == Pow256(IntBytes) - 1

\* T::checked_sub: None on underflow
checked_sub(a, b) == IF a < b THEN None ELSE Some(a - b)

\* T::checked_add: None on overflow
checked_add(a, b) == IF a + b > T_MAX THEN None ELSE Some(a + b)

\* Option::and_then
and_then(o, f(_)) == IF IsSome(o) THEN f(Unwrap(o)) ELSE None

\* Option::ok_or
ok_or(o, e) == IF IsSome(o) THEN Ok(Unwrap(o)) ELSE Err(e)

(***************************************************************************)
(* CompleteDataRange<T>                                                    *)
(***************************************************************************)
Range(lowest, highest) == [lowest |-> lowest, highest |-> highest]

range_length_checked(lowest, highest) ==
    LET add_one(value) == checked_add(value, 1)
    IN  ok_or(and_then(checked_sub(highest, lowest), add_one), DegenerateRangeError)

\* Mutant of CompleteDataRange_new: `>=` for `>`.
CompleteDataRange_new_strict(lowest, highest) ==
    IF lowest >= highest \/ ~range_length_checked(lowest, highest).ok
    THEN Err(DegenerateRangeError)
    ELSE Ok(Range(lowest, highest))

CompleteDataRange_new(lowest, highest) ==
    IF lowest > highest \/ ~range_length_checked(lowest, highest).ok
    THEN Err(DegenerateRangeError)
    ELSE Ok(Range(lowest, highest))

\* Mutant of CompleteDataRange_from_len: the highest version is clamped to
\* T::MAX (saturating_add) where the code gives up (checked_add).
CompleteDataRange_from_len_clamped(lowest, len) ==
    IF len < 1 THEN Err(DegenerateRangeError)
    ELSE CompleteDataRange_new(lowest,
                               IF lowest + (len - 1) > T_MAX THEN T_MAX
                               ELSE lowest + (len - 1))

CompleteDataRange_from_len(lowest, len) ==
    LET add_lowest(addend) == checked_add(lowest, addend)
        highest == ok_or(and_then(checked_sub(len, 1), add_lowest), DegenerateRangeError)
    IN  IF ~highest.ok THEN Err(DegenerateRangeError)
        ELSE CompleteDataRange_new(lowest, highest.val)

CompleteDataRange_lowest(self) == self.lowest

CompleteDataRange_highest(self) == self.highest

CompleteDataRange_len(self) ==
    LET add_one(value) == checked_add(value, 1)
    IN  ok_or(and_then(checked_sub(self.highest, self.lowest), add_one),
              DegenerateRangeError)

\* Mutant of CompleteDataRange_contains: the highest version is excluded.
CompleteDataRange_contains_exclusive(self, item) ==
    self.lowest <= item /\ item < self.highest

CompleteDataRange_contains(self, item) ==
    self.lowest <= item /\ item <= self.highest

\* Mutant of CompleteDataRange_superset_of: `<` for the first `<=`.
CompleteDataRange_superset_of_strict(self, other) ==
    self.lowest < other.lowest /\ other.highest <= self.highest

CompleteDataRange_superset_of(self, other) ==
    self.lowest <= other.lowest /\ other.highest <= self.highest

CompleteDataRange_from_genesis(highest) == Range(0, highest)

(***************************************************************************)
(* BCS, the wire codec: integers are little-endian, a struct is the        *)
(* concatenation of its fields, an Option is a 0/1 tag and the value, an   *)
(* enum is its variant index and the variant's fields, a string or byte    *)
(* vector is its ULEB128 length and its bytes.  A decoder reads from a     *)
(* position and returns the value and the next position.                   *)
(***************************************************************************)
Byte == 0..255

Parsed(v, next) == Ok([v |-> v, next |-> next])

RECURSIVE to_le_bytes(_, _)
to_le_bytes(x, n) ==
    IF n = 0 THEN <<>> ELSE <<x % 256>> \o to_le_bytes(x \div 256, n - 1)

RECURSIVE from_le_bytes(_, _, _)
from_le_bytes(bytes, pos, n) ==
    IF n = 0 THEN 0 ELSE bytes[pos] + 256 * from_le_bytes(bytes, pos + 1, n - 1)

\* u64 as Serialize
ser_u64(x) == to_le_bytes(x, IntBytes)

\* u64 as Deserialize
de_u64(bytes, pos) ==
    IF pos + IntBytes - 1 > Len(bytes)
    THEN Err("unexpected end of input")
    ELSE Parsed(from_le_bytes(bytes, pos, IntBytes), pos + IntBytes)

\* bcs::from_bytes: the whole input must be consumed
bcs_from_bytes(parsed, bytes) ==
    IF ~parsed.ok THEN parsed
    ELSE IF parsed.val.next <= Len(bytes) THEN Err("remaining input")
    ELSE Ok(parsed.val.v)

\* #[derive(Serialize)] of CompleteDataRange: lowest, then highest
ser_CompleteDataRange(self) == ser_u64(self.lowest) \o ser_u64(self.highest)

\* Mutant of de_CompleteDataRange: the derived Deserialize, which reads the
\* two fields and builds the range without Self::new.
de_CompleteDataRange_unvalidated(bytes, pos) ==
    LET lowest == de_u64(bytes, pos)
    IN  IF ~lowest.ok THEN lowest
        ELSE LET highest == de_u64(bytes, lowest.val.next)
             IN  IF ~highest.ok THEN highest
                 ELSE Parsed(Range(lowest.val.v, highest.val.v), highest.val.next)

\* impl Deserialize for CompleteDataRange: read the two fields, then
\* Self::new(value.lowest, value.highest).map_err(D::Error::custom)
de_CompleteDataRange(bytes, pos) ==
    LET lowest == de_u64(bytes, pos)
    IN  IF ~lowest.ok THEN lowest
        ELSE LET highest == de_u64(bytes, lowest.val.next)
             IN  IF ~highest.ok THEN highest
                 ELSE LET made == CompleteDataRange_new(lowest.val.v, highest.val.v)
                      IN  IF ~made.ok THEN Err("Data range cannot be degenerate!")
                          ELSE Parsed(made.val, highest.val.next)

(***************************************************************************)
(* Range operations as steps: the last call and what it returned           *)
(***************************************************************************)
\* The integers the range operations are called with.
RangeValues == {0, 1, 5, 10, 12, 18, 20, 25, T_MAX - 1, T_MAX}

\* Byte strings a peer can put on the wire where a range is expected.
WireRangeBytes ==
    {ser_u64(l) \o ser_u64(h) : l \in RangeValues, h \in RangeValues}
      \cup {<<>>, <<1>>, ser_u64(0) \o ser_u64(1) \o <<0>>}

\* The ranges a range is compared with: those CompleteDataRange::new builds
\* from the integers of the examples and T::MAX.
OtherValues == {5, 10, 12, 18, 20, 25, T_MAX}

OtherRanges ==
    {Range(l, h) : <<l, h>> \in {p \in OtherValues \X OtherValues :
                                     CompleteDataRange_new(p[1], p[2]).ok}}

NoCall == [name |-> "none"]

RangeInit ==
    /\ cur = None
    /\ cur_by = "none"
    /\ call = NoCall
    /\ ret = None

New(lowest, highest) ==
    /\ LET made == CompleteDataRange_new(lowest, highest)
       IN  /\ call' = [name |-> "new", lowest |-> lowest, highest |-> highest]
           /\ ret' = made
           /\ cur' = IF made.ok THEN Some(made.val) ELSE None
           /\ cur_by' = "new"
    /\ UNCHANGED <<service_vars, envelope_vars>>

FromLen(lowest, len) ==
    /\ LET made == CompleteDataRange_from_len(lowest, len)
       IN  /\ call' = [name |-> "from_len", lowest |-> lowest, len |-> len]
           /\ ret' = made
           /\ cur' = IF made.ok THEN Some(made.val) ELSE None
           /\ cur_by' = "from_len"
    /\ UNCHANGED <<service_vars, envelope_vars>>

FromGenesis(highest) ==
    /\ LET made == CompleteDataRange_from_genesis(highest)
       IN  /\ call' = [name |-> "from_genesis", highest |-> highest]
           /\ ret' = made
           /\ cur' = Some(made)
           /\ cur_by' = "from_genesis"
    /\ UNCHANGED <<service_vars, envelope_vars>>

LenOfCurrent ==
    /\ IsSome(cur)
    /\ call' = [name |-> "len", self |-> Unwrap(cur)]
    /\ ret' = CompleteDataRange_len(Unwrap(cur))
    /\ UNCHANGED <<cur, cur_by>>
    /\ UNCHANGED <<service_vars, envelope_vars>>

SupersetOf(other) ==
    /\ IsSome(cur)
    /\ call' = [name |-> "superset_of", self |-> Unwrap(cur), self_by |-> cur_by,
                other |-> other]
    /\ ret' = CompleteDataRange_superset_of(Unwrap(cur), other)
    /\ UNCHANGED <<cur, cur_by>>
    /\ UNCHANGED <<service_vars, envelope_vars>>

SerializeCurrent ==
    /\ IsSome(cur)
    /\ call' = [name |-> "serialize", self |-> Unwrap(cur), self_by |-> cur_by]
    /\ ret' = ser_CompleteDataRange(Unwrap(cur))
    /\ UNCHANGED <<cur, cur_by>>
    /\ UNCHANGED <<service_vars, envelope_vars>>

\* Deserialize the bytes the last step serialized.
DeserializeSerialized ==
    /\ call.name = "serialize"
    /\ LET made == bcs_from_bytes(de_CompleteDataRange(ret, 1), ret)
       IN  /\ call' = [name |-> "deserialize", bytes |-> ret,
                       sent |-> Some(call.self), sent_by |-> call.self_by]
           /\ ret' = made
           /\ cur' = IF made.ok THEN Some(made.val) ELSE None
           /\ cur_by' = "deserialize"
    /\ UNCHANGED <<service_vars, envelope_vars>>

\* Deserialize bytes received from a peer.
DeserializeWire(bytes) ==
    /\ LET made == bcs_from_bytes(de_CompleteDataRange(bytes, 1), bytes)
       IN  /\ call' = [name |-> "deserialize", bytes |-> bytes,
                       sent |-> None, sent_by |-> "wire"]
           /\ ret' = made
           /\ cur' = IF made.ok THEN Some(made.val) ELSE None
           /\ cur_by' = "deserialize"
    /\ UNCHANGED <<service_vars, envelope_vars>>

RangeNext ==
    \/ \E lowest \in RangeValues, highest \in RangeValues : New(lowest, highest)
    \/ \E lowest \in RangeValues, len \in RangeValues : FromLen(lowest, len)
    \/ \E highest \in RangeValues : FromGenesis(highest)
    \/ LenOfCurrent
    \/ \E other \in OtherRanges : SupersetOf(other)
    \/ SerializeCurrent
    \/ DeserializeSerialized
    \/ \E bytes \in WireRangeBytes : DeserializeWire(bytes)

(***************************************************************************)
(* DataSummary, ProtocolMetadata, StorageServerSummary                     *)
(*                                                                         *)
(* A LedgerInfoWithSignatures is modelled by ledger_info().version(), the  *)
(* only part of it the summary reads.  A request is a record of its kind   *)
(* and the fields can_service reads.                                       *)
(***************************************************************************)
OPTIMISTIC_FETCH_VERSION_DELTA == 25000

\* u64 `+`: in a build with overflow checks an overflow panics, in a build
\* without them the sum wraps.
OverflowModes == {"panic", "wrap"}

Returned(b) == [panic |-> FALSE, val |-> b]
Panicked == [panic |-> TRUE]

DataSummary(synced, epochs, states, transactions, outputs) ==
    [synced_ledger_info |-> synced,
     epoch_ending_ledger_infos |-> epochs,
     states |-> states,
     transactions |-> transactions,
     transaction_outputs |-> outputs]

ProtocolMetadata(epoch, state, txn, output) ==
    [max_epoch_chunk_size |-> epoch,
     max_state_chunk_size |-> state,
     max_transaction_chunk_size |-> txn,
     max_transaction_output_chunk_size |-> output]

\* #[derive(Default)] of DataSummary: every field None
DataSummary_default == DataSummary(None, None, None, None, None)

\* impl Default for ProtocolMetadata: the chunk sizes of the default
\* StorageServiceConfig (values of the configuration, scaled)
ProtocolMetadata_default == ProtocolMetadata(2, 4, 3, 3)

StorageServerSummary(metadata, data) ==
    [protocol_metadata |-> metadata, data_summary |-> data]

StorageServerSummary_default ==
    StorageServerSummary(ProtocolMetadata_default, DataSummary_default)

\* Mutant of held_superset_of: unwrap_or(true) for unwrap_or(false).
held_superset_of_or_absent(held, desired) ==
    IF IsSome(held) THEN CompleteDataRange_superset_of(Unwrap(held), desired) ELSE TRUE

\* Option<CompleteDataRange>.map(|range| range.superset_of(&desired)).unwrap_or(false)
held_superset_of(held, desired) ==
    IF IsSome(held) THEN CompleteDataRange_superset_of(Unwrap(held), desired) ELSE FALSE

\* Mutant of held_contains: unwrap_or(true) for unwrap_or(false).
held_contains_or_absent(held, item) ==
    IF IsSome(held) THEN CompleteDataRange_contains(Unwrap(held), item) ELSE TRUE

\* Option<CompleteDataRange>.map(|range| range.contains(item)).unwrap_or(false)
held_contains(held, item) ==
    IF IsSome(held) THEN CompleteDataRange_contains(Unwrap(held), item) ELSE FALSE

\* Mutant of can_create_proof: any synced ledger info will do.
can_create_proof_any_version(self, proof_version) ==
    IsSome(self.synced_ledger_info)

\* synced_ledger_info.as_ref().map(|li| li.ledger_info().version() >= v).unwrap_or(false)
can_create_proof(self, proof_version) ==
    IF IsSome(self.synced_ledger_info)
    THEN Unwrap(self.synced_ledger_info) >= proof_version
    ELSE FALSE

can_service_optimistic_request(self, known_version, overflow) ==
    IF IsSome(self.synced_ledger_info)
    THEN LET sum == Unwrap(self.synced_ledger_info) + OPTIMISTIC_FETCH_VERSION_DELTA
         IN  IF sum > T_MAX
             THEN IF overflow = "panic" THEN Panicked
                  ELSE Returned((sum - (T_MAX + 1)) > known_version)
             ELSE Returned(sum > known_version)
    ELSE Returned(FALSE)

DataSummary_can_service(self, req, overflow) ==
    CASE req.kind \in {"GetServerProtocolVersion", "GetStorageServerSummary"} ->
           Returned(TRUE)
      [] req.kind = "GetEpochEndingLedgerInfos" ->
           LET desired_range == CompleteDataRange_new(req.start_epoch, req.expected_end_epoch)
           IN  IF ~desired_range.ok THEN Returned(FALSE)
               ELSE Returned(held_superset_of(self.epoch_ending_ledger_infos,
                                              desired_range.val))
      [] req.kind = "GetNewTransactionOutputsWithProof" ->
           can_service_optimistic_request(self, req.known_version, overflow)
      [] req.kind = "GetNewTransactionsWithProof" ->
           can_service_optimistic_request(self, req.known_version, overflow)
      [] req.kind = "GetNumberOfStatesAtVersion" ->
           Returned(held_contains(self.states, req.version))
      [] req.kind = "GetStateValuesWithProof" ->
           LET proof_version == req.version
               can_serve_states == held_contains(self.states, req.version)
           IN  Returned(can_serve_states /\ can_create_proof(self, proof_version))
      [] req.kind = "GetTransactionOutputsWithProof" ->
           LET desired_range == CompleteDataRange_new(req.start_version, req.end_version)
           IN  IF ~desired_range.ok THEN Returned(FALSE)
               ELSE LET can_serve_outputs ==
                            held_superset_of(self.transaction_outputs, desired_range.val)
                    IN  Returned(can_serve_outputs
                                 /\ can_create_proof(self, req.proof_version))
      [] req.kind = "GetTransactionsWithProof" ->
           LET desired_range == CompleteDataRange_new(req.start_version, req.end_version)
           IN  IF ~desired_range.ok THEN Returned(FALSE)
               ELSE LET can_serve_txns ==
                            held_superset_of(self.transactions, desired_range.val)
                    IN  Returned(can_serve_txns
                                 /\ can_create_proof(self, req.proof_version))
      [] req.kind = "GetNewTransactionsOrOutputsWithProof" ->
           can_service_optimistic_request(self, req.known_version, overflow)
      [] req.kind = "GetTransactionsOrOutputsWithProof" ->
           LET desired_range == CompleteDataRange_new(req.start_version, req.end_version)
           IN  IF ~desired_range.ok THEN Returned(FALSE)
               ELSE LET can_serve_txns ==
                            held_superset_of(self.transactions, desired_range.val)
                        can_serve_outputs ==
                            held_superset_of(self.transaction_outputs, desired_range.val)
                    IN  Returned(can_serve_txns /\ can_serve_outputs
                                 /\ can_create_proof(self, req.proof_version))

\* Mutant of ProtocolMetadata::can_service: the epoch chunk size is enforced.
ProtocolMetadata_can_service_enforcing(self, req) ==
    req.kind = "GetEpochEndingLedgerInfos" =>
        req.expected_end_epoch - req.start_epoch < self.max_epoch_chunk_size

\* Deems every request serviceable.
ProtocolMetadata_can_service(self, req) == TRUE

\* protocol_metadata.can_service(request) && data_summary.can_service(request)
StorageServerSummary_can_service(self, req, overflow) ==
    IF ProtocolMetadata_can_service(self.protocol_metadata, req)
    THEN DataSummary_can_service(self.data_summary, req, overflow)
    ELSE Returned(FALSE)

(***************************************************************************)
(* Serviceability checks as steps                                          *)
(***************************************************************************)
RangeKinds == {"GetTransactionOutputsWithProof", "GetTransactionsWithProof",
               "GetTransactionsOrOutputsWithProof"}

OptimisticKinds == {"GetNewTransactionOutputsWithProof", "GetNewTransactionsWithProof",
                    "GetNewTransactionsOrOutputsWithProof"}

StateKinds == {"GetNumberOfStatesAtVersion", "GetStateValuesWithProof"}

MetadataKinds == {"GetServerProtocolVersion", "GetStorageServerSummary"}

\* The versions and epochs requests are made with.
RequestVersions == {0, 4500, 5000, T_MAX}
KnownVersions == {0, 25999, 26000, T_MAX}
RequestEpochs == {0, 3, 7, T_MAX}

Requests ==
    [kind : RangeKinds, start_version : RequestVersions,
     end_version : RequestVersions, proof_version : RequestVersions]
      \cup [kind : OptimisticKinds, known_version : KnownVersions]
      \cup [kind : StateKinds, version : RequestVersions]
      \cup [kind : {"GetEpochEndingLedgerInfos"}, start_epoch : RequestEpochs,
            expected_end_epoch : RequestEpochs]
      \cup [kind : MetadataKinds]

\* The summaries a storage service advertises.
SyncedVersions == {None, Some(1000), Some(4000), Some(T_MAX)}
HeldVersionRanges == {None, Some(Range(0, 5000)), Some(Range(4500, T_MAX))}
HeldEpochRanges == {None, Some(Range(0, 7)), Some(Range(3, 3))}
Metadatas == {ProtocolMetadata_default, ProtocolMetadata(0, 0, 0, 0)}

Summaries ==
    {StorageServerSummary(m, DataSummary(s, e, st, t, o)) :
        m \in Metadatas, s \in SyncedVersions, e \in HeldEpochRanges,
        st \in HeldVersionRanges, t \in HeldVersionRanges, o \in HeldVersionRanges}

ServiceInit ==
    /\ summary = StorageServerSummary_default
    /\ request = None
    /\ serviceable = None

\* The storage service replaces its advertised summary; a summary is a
\* frozen snapshot while a check runs against it.
UpdateSummary(s) ==
    /\ request = None
    /\ summary' = s
    /\ request' = None
    /\ serviceable' = None
    /\ UNCHANGED <<range_vars, envelope_vars>>

CanService(req, overflow) ==
    /\ request = None
    /\ request' = Some(req)
    /\ serviceable' = Some(StorageServerSummary_can_service(summary, req, overflow))
    /\ UNCHANGED summary
    /\ UNCHANGED <<range_vars, envelope_vars>>

\* The caller takes the answer; the next check starts afresh.
Answer ==
    /\ IsSome(request)
    /\ request' = None
    /\ serviceable' = None
    /\ UNCHANGED summary
    /\ UNCHANGED <<range_vars, envelope_vars>>

ServiceNext ==
    \/ \E s \in Summaries : UpdateSummary(s)
    \/ \E req \in Requests, overflow \in OverflowModes : CanService(req, overflow)
    \/ Answer

(***************************************************************************)
(* BCS of the response types                                               *)
(***************************************************************************)
\* Continue a decoder with the value it read and the position it reached.
Bind(r, k(_, _)) == IF ~r.ok THEN r ELSE k(r.val.v, r.val.next)

RECURSIVE ser_uleb128(_)
ser_uleb128(n) ==
    IF n < 128 THEN <<n>> ELSE <<128 + (n % 128)>> \o ser_uleb128(n \div 128)

\* ULEB128 of a u32; groups beyond the third are rejected here, which no
\* length or variant index of the model needs.
RECURSIVE de_uleb128_from(_, _, _, _)
de_uleb128_from(bytes, pos, mult, acc) ==
    IF pos > Len(bytes) THEN Err("unexpected end of input")
    ELSE IF mult > 128 * 128 THEN Err("ULEB128-encoded integer did not fit in the target size")
    ELSE LET b == bytes[pos]
         IN  IF b < 128
             THEN IF b = 0 /\ mult > 1 THEN Err("ULEB128 encoding was not minimal in size")
                  ELSE Parsed(acc + b * mult, pos + 1)
             ELSE de_uleb128_from(bytes, pos + 1, mult * 128, acc + (b - 128) * mult)

de_uleb128(bytes, pos) == de_uleb128_from(bytes, pos, 1, 0)

\* Vec<u8>: the length, then the bytes
ser_bytes(b) == ser_uleb128(Len(b)) \o b

de_bytes(bytes, pos) ==
    Bind(de_uleb128(bytes, pos),
         LAMBDA len, next :
            IF next + len - 1 > Len(bytes) THEN Err("unexpected end of input")
            ELSE Parsed(SubSeq(bytes, next, next + len - 1), next + len))

\* Option<T>: tag 0, or tag 1 and the value
ser_option(o, ser(_)) == IF IsSome(o) THEN <<1>> \o ser(Unwrap(o)) ELSE <<0>>

de_option(bytes, pos, de(_, _)) ==
    IF pos > Len(bytes) THEN Err("unexpected end of input")
    ELSE IF bytes[pos] = 0 THEN Parsed(None, pos + 1)
    ELSE IF bytes[pos] = 1
         THEN Bind(de(bytes, pos + 1), LAMBDA v, next : Parsed(Some(v), next))
    ELSE Err("invalid tag for Option")

\* #[derive(Serialize, Deserialize)] of ProtocolMetadata, in field order
ser_ProtocolMetadata(m) ==
    ser_u64(m.max_epoch_chunk_size) \o ser_u64(m.max_state_chunk_size)
      \o ser_u64(m.max_transaction_chunk_size)
      \o ser_u64(m.max_transaction_output_chunk_size)

de_ProtocolMetadata(bytes, pos) ==
    Bind(de_u64(bytes, pos), LAMBDA epoch, p1 :
    Bind(de_u64(bytes, p1), LAMBDA state, p2 :
    Bind(de_u64(bytes, p2), LAMBDA txn, p3 :
    Bind(de_u64(bytes, p3), LAMBDA output, p4 :
    Parsed(ProtocolMetadata(epoch, state, txn, output), p4)))))

\* #[derive(Serialize, Deserialize)] of DataSummary, in field order; each
\* range field goes through CompleteDataRange's own Deserialize
ser_DataSummary(d) ==
    ser_option(d.synced_ledger_info, ser_u64)
      \o ser_option(d.epoch_ending_ledger_infos, ser_CompleteDataRange)
      \o ser_option(d.states, ser_CompleteDataRange)
      \o ser_option(d.transactions, ser_CompleteDataRange)
      \o ser_option(d.transaction_outputs, ser_CompleteDataRange)

de_DataSummary(bytes, pos) ==
    Bind(de_option(bytes, pos, de_u64), LAMBDA synced, p1 :
    Bind(de_option(bytes, p1, de_CompleteDataRange), LAMBDA epochs, p2 :
    Bind(de_option(bytes, p2, de_CompleteDataRange), LAMBDA states, p3 :
    Bind(de_option(bytes, p3, de_CompleteDataRange), LAMBDA txns, p4 :
    Bind(de_option(bytes, p4, de_CompleteDataRange), LAMBDA outputs, p5 :
    Parsed(DataSummary(synced, epochs, states, txns, outputs), p5))))))

ser_StorageServerSummary(s) ==
    ser_ProtocolMetadata(s.protocol_metadata) \o ser_DataSummary(s.data_summary)

de_StorageServerSummary(bytes, pos) ==
    Bind(de_ProtocolMetadata(bytes, pos), LAMBDA metadata, p1 :
    Bind(de_DataSummary(bytes, p1), LAMBDA data, p2 :
    Parsed(StorageServerSummary(metadata, data), p2)))

ServerProtocolVersion(v) == [protocol_version |-> v]

ser_ServerProtocolVersion(v) == ser_u64(v.protocol_version)

de_ServerProtocolVersion(bytes, pos) ==
    Bind(de_u64(bytes, pos), LAMBDA v, next : Parsed(ServerProtocolVersion(v), next))

(***************************************************************************)
(* DataResponse                                                            *)
(*                                                                         *)
(* The proof-bearing payload types of aptos_types (EpochChangeProof,       *)
(* TransactionListWithProof, TransactionOutputListWithProof,               *)
(* StateValueChunkWithProof) are opaque here: each is modelled as the byte *)
(* vector it carries.                                                      *)
(***************************************************************************)
\* The variants of DataResponse in declaration order: the BCS variant index
\* of a variant is its position here, counted from 0.
DataResponseVariants ==
    << "EpochEndingLedgerInfos", "NewTransactionOutputsWithProof",
       "NewTransactionsWithProof", "NumberOfStatesAtVersion",
       "ServerProtocolVersion", "StateValueChunkWithProof",
       "StorageServerSummary", "TransactionOutputsWithProof",
       "TransactionsWithProof", "NewTransactionsOrOutputsWithProof",
       "TransactionsOrOutputsWithProof" >>

Variants == {DataResponseVariants[i] : i \in DOMAIN DataResponseVariants}

DataResponse(variant, inner) == [variant |-> variant, inner |-> inner]

DataResponse_get_label(self) ==
    CASE self.variant = "EpochEndingLedgerInfos" -> "epoch_ending_ledger_infos"
      [] self.variant = "NewTransactionOutputsWithProof" -> "new_transaction_outputs_with_proof"
      [] self.variant = "NewTransactionsWithProof" -> "new_transactions_with_proof"
      [] self.variant = "NumberOfStatesAtVersion" -> "number_of_states_at_version"
      [] self.variant = "ServerProtocolVersion" -> "server_protocol_version"
      [] self.variant = "StateValueChunkWithProof" -> "state_value_chunk_with_proof"
      [] self.variant = "StorageServerSummary" -> "storage_server_summary"
      [] self.variant = "TransactionOutputsWithProof" -> "transaction_outputs_with_proof"
      [] self.variant = "TransactionsWithProof" -> "transactions_with_proof"
      [] self.variant = "NewTransactionsOrOutputsWithProof" ->
           "new_transactions_or_outputs_with_proof"
      [] self.variant = "TransactionsOrOutputsWithProof" ->
           "transactions_or_outputs_with_proof"

\* TransactionOrOutputListWithProof: a pair of optional lists
ser_TransactionOrOutputListWithProof(p) ==
    ser_option(p[1], ser_bytes) \o ser_option(p[2], ser_bytes)

de_TransactionOrOutputListWithProof(bytes, pos) ==
    Bind(de_option(bytes, pos, de_bytes), LAMBDA txns, p1 :
    Bind(de_option(bytes, p1, de_bytes), LAMBDA outputs, p2 :
    Parsed(<<txns, outputs>>, p2)))

\* (list, LedgerInfoWithSignatures, Option<u64>)
ser_with_ledger_info(t, ser_list(_)) ==
    ser_list(t[1]) \o ser_u64(t[2]) \o ser_option(t[3], ser_u64)

de_with_ledger_info(bytes, pos, de_list(_, _)) ==
    Bind(de_list(bytes, pos), LAMBDA list, p1 :
    Bind(de_u64(bytes, p1), LAMBDA ledger_info, p2 :
    Bind(de_option(bytes, p2, de_u64), LAMBDA hint, p3 :
    Parsed(<<list, ledger_info, hint>>, p3))))

ser_inner(variant, inner) ==
    CASE variant \in {"EpochEndingLedgerInfos", "StateValueChunkWithProof",
                      "TransactionOutputsWithProof", "TransactionsWithProof"} ->
           ser_bytes(inner)
      [] variant \in {"NewTransactionOutputsWithProof", "NewTransactionsWithProof"} ->
           ser_with_ledger_info(inner, ser_bytes)
      [] variant = "NewTransactionsOrOutputsWithProof" ->
           ser_with_ledger_info(inner, ser_TransactionOrOutputListWithProof)
      [] variant = "TransactionsOrOutputsWithProof" ->
           ser_TransactionOrOutputListWithProof(inner)
      [] variant = "NumberOfStatesAtVersion" -> ser_u64(inner)
      [] variant = "ServerProtocolVersion" -> ser_ServerProtocolVersion(inner)
      [] variant = "StorageServerSummary" -> ser_StorageServerSummary(inner)

de_inner(variant, bytes, pos) ==
    CASE variant \in {"EpochEndingLedgerInfos", "StateValueChunkWithProof",
                      "TransactionOutputsWithProof", "TransactionsWithProof"} ->
           de_bytes(bytes, pos)
      [] variant \in {"NewTransactionOutputsWithProof", "NewTransactionsWithProof"} ->
           de_with_ledger_info(bytes, pos, de_bytes)
      [] variant = "NewTransactionsOrOutputsWithProof" ->
           de_with_ledger_info(bytes, pos, de_TransactionOrOutputListWithProof)
      [] variant = "TransactionsOrOutputsWithProof" ->
           de_TransactionOrOutputListWithProof(bytes, pos)
      [] variant = "NumberOfStatesAtVersion" -> de_u64(bytes, pos)
      [] variant = "ServerProtocolVersion" -> de_ServerProtocolVersion(bytes, pos)
      [] variant = "StorageServerSummary" -> de_StorageServerSummary(bytes, pos)

VariantIndex(variant) ==
    CHOOSE i \in DOMAIN DataResponseVariants : DataResponseVariants[i] = variant

\* #[derive(Serialize)] of DataResponse: the variant index, then the payload
ser_DataResponse(d) ==
    ser_uleb128(VariantIndex(d.variant) - 1) \o ser_inner(d.variant, d.inner)

\* #[derive(Deserialize)] of DataResponse
de_DataResponse(bytes, pos) ==
    Bind(de_uleb128(bytes, pos), LAMBDA index, p1 :
       IF index >= Len(DataResponseVariants)
       THEN Err("invalid value: variant index")
       ELSE Bind(de_inner(DataResponseVariants[index + 1], bytes, p1),
                 LAMBDA inner, p2 :
                    Parsed(DataResponse(DataResponseVariants[index + 1], inner), p2)))

\* bcs::to_bytes(&data_response)
bcs_to_bytes_DataResponse(d) == Ok(ser_DataResponse(d))

\* bcs::from_bytes::<DataResponse>(&raw_data)
bcs_from_bytes_DataResponse(bytes) == bcs_from_bytes(de_DataResponse(bytes, 1), bytes)

(***************************************************************************)
(* aptos_compression and the crate's label suffix                          *)
(***************************************************************************)
COMPRESSION_SUFFIX_LABEL == "_compressed"

\* The width of the size prefix of a compressed blob.
SizePrefixBytes == 4

\* compress(raw_data, client, max_bytes): fails when the input or the output
\* exceeds the byte budget; the output is the input's size and its encoding.
compress(raw_data, max_bytes) ==
    IF Len(raw_data) > max_bytes
    THEN Err("CompressionError")
    ELSE LET compressed == to_le_bytes(Len(raw_data), SizePrefixBytes)
                             \o [i \in 1..Len(raw_data) |-> 255 - raw_data[i]]
         IN  IF Len(compressed) > max_bytes THEN Err("CompressionError")
             ELSE Ok(compressed)

\* decompress(compressed_data, client, max_bytes): the inverse of compress;
\* fails on a malformed blob and when the stated size exceeds the budget.
decompress(compressed_data, max_bytes) ==
    IF Len(compressed_data) < SizePrefixBytes THEN Err("CompressionError")
    ELSE LET size == from_le_bytes(compressed_data, 1, SizePrefixBytes)
             body == SubSeq(compressed_data, SizePrefixBytes + 1, Len(compressed_data))
         IN  IF size > max_bytes \/ Len(body) # size THEN Err("CompressionError")
             ELSE Ok([i \in 1..Len(body) |-> 255 - body[i]])

(***************************************************************************)
(* StorageServiceResponse                                                  *)
(***************************************************************************)
UnexpectedErrorEncountered(msg) == [kind |-> "UnexpectedErrorEncountered", msg |-> msg]
UnexpectedResponseError(msg) == [kind |-> "UnexpectedResponseError", msg |-> msg]

CompressedResponse(label, data) ==
    [tag |-> "CompressedResponse", label |-> label, data |-> data]

RawResponse(data_response) ==
    [tag |-> "RawResponse", data_response |-> data_response]

\* Mutant of StorageServiceResponse::new: the compression flag is ignored.
StorageServiceResponse_new_always_raw(data_response, perform_compression) ==
    Ok(RawResponse(data_response))

\* Mutant of StorageServiceResponse::new: the label is stored without the
\* compression suffix.
StorageServiceResponse_new_plain_label(data_response, perform_compression) ==
    IF perform_compression
    THEN LET compressed_data ==
                 compress(ser_DataResponse(data_response), MAX_APPLICATION_MESSAGE_SIZE)
         IN  IF ~compressed_data.ok
             THEN Err(UnexpectedErrorEncountered(compressed_data.err))
             ELSE Ok(CompressedResponse(DataResponse_get_label(data_response),
                                        compressed_data.val))
    ELSE Ok(RawResponse(data_response))

StorageServiceResponse_new(data_response, perform_compression) ==
    IF perform_compression
    THEN LET raw_data == bcs_to_bytes_DataResponse(data_response)
         IN  IF ~raw_data.ok THEN Err(UnexpectedErrorEncountered(raw_data.err))
             ELSE LET compressed_data ==
                          compress(raw_data.val, MAX_APPLICATION_MESSAGE_SIZE)
                  IN  IF ~compressed_data.ok
                      THEN Err(UnexpectedErrorEncountered(compressed_data.err))
                      ELSE LET label == DataResponse_get_label(data_response)
                                          \o COMPRESSION_SUFFIX_LABEL
                           IN  Ok(CompressedResponse(label, compressed_data.val))
    ELSE Ok(RawResponse(data_response))

StorageServiceResponse_get_data_response(self) ==
    IF self.tag = "CompressedResponse"
    THEN LET raw_data == decompress(self.data, MAX_APPLICATION_MESSAGE_SIZE)
         IN  IF ~raw_data.ok THEN Err(UnexpectedErrorEncountered(raw_data.err))
             ELSE LET data_response == bcs_from_bytes_DataResponse(raw_data.val)
                  IN  IF ~data_response.ok
                      THEN Err(UnexpectedErrorEncountered(data_response.err))
                      ELSE Ok(data_response.val)
    ELSE Ok(self.data_response)

StorageServiceResponse_get_label(self) ==
    IF self.tag = "CompressedResponse"
    THEN self.label
    ELSE DataResponse_get_label(self.data_response)

StorageServiceResponse_is_compressed(self) == self.tag = "CompressedResponse"

\* The label each TryFrom<StorageServiceResponse> impl writes in its error,
\* by the variant whose payload type the impl is for.
TryFrom_expected(target) ==
    CASE target = "StateValueChunkWithProof" -> "state_value_chunk_with_proof"
      [] target = "EpochEndingLedgerInfos" -> "epoch_ending_ledger_infos"
      [] target = "NewTransactionOutputsWithProof" -> "new_transaction_outputs_with_proof"
      [] target = "NewTransactionsWithProof" -> "new_transactions_with_proof"
      [] target = "NumberOfStatesAtVersion" -> "number_of_states_at_version"
      [] target = "ServerProtocolVersion" -> "server_protocol_version"
      [] target = "StorageServerSummary" -> "storage_server_summary"
      [] target = "TransactionOutputsWithProof" -> "transaction_outputs_with_proof"
      [] target = "TransactionsWithProof" -> "transactions_with_proof"
      [] target = "NewTransactionsOrOutputsWithProof" ->
           "new_transactions_or_outputs_with_proof"
      [] target = "TransactionsOrOutputsWithProof" ->
           "transactions_or_outputs_with_proof"

\* Mutant of TryFrom: the error names the envelope's label, not the
\* payload's.
TryFrom_envelope_label(target, response) ==
    LET data_response == StorageServiceResponse_get_data_response(response)
    IN  IF ~data_response.ok THEN data_response
        ELSE IF data_response.val.variant = target
             THEN Ok(data_response.val.inner)
             ELSE Err(UnexpectedResponseError(
                        "expected " \o TryFrom_expected(target) \o ", found "
                          \o StorageServiceResponse_get_label(response)))

\* impl TryFrom<StorageServiceResponse> for the payload type of `target`
TryFrom(target, response) ==
    LET data_response == StorageServiceResponse_get_data_response(response)
    IN  IF ~data_response.ok THEN data_response
        ELSE IF data_response.val.variant = target
             THEN Ok(data_response.val.inner)
             ELSE Err(UnexpectedResponseError(
                        "expected " \o TryFrom_expected(target) \o ", found "
                          \o DataResponse_get_label(data_response.val)))

(***************************************************************************)
(* Envelope operations as steps                                            *)
(***************************************************************************)
\* Opaque payloads; the last is too large for the byte budget.
Blobs == {<<>>, <<7>>, <<1, 0>>}
BigBlob == [i \in 1..MAX_APPLICATION_MESSAGE_SIZE |-> 0]

OptionalLists == {<<None, None>>, <<Some(<<7>>), None>>, <<None, Some(<<>>)>>}
Hints == {None, Some(5)}

\* Summaries sent as payloads; the last holds from_genesis(T::MAX).
EnvelopeSummaries ==
    {StorageServerSummary_default,
     StorageServerSummary(ProtocolMetadata_default,
        DataSummary(Some(4000), Some(Range(0, 7)), None, Some(Range(0, 5000)), None)),
     StorageServerSummary(ProtocolMetadata_default,
        DataSummary(None, None, None, Some(CompleteDataRange_from_genesis(T_MAX)), None))}

DataResponses ==
    {DataResponse(v, b) :
        v \in {"EpochEndingLedgerInfos", "StateValueChunkWithProof",
               "TransactionOutputsWithProof", "TransactionsWithProof"},
        b \in Blobs}
      \cup {DataResponse("TransactionsWithProof", BigBlob)}
      \cup {DataResponse(v, <<b, 3, h>>) :
              v \in {"NewTransactionOutputsWithProof", "NewTransactionsWithProof"},
              b \in {<<>>, <<7>>}, h \in Hints}
      \cup {DataResponse("NewTransactionsOrOutputsWithProof", <<p, 3, h>>) :
              p \in OptionalLists, h \in Hints}
      \cup {DataResponse("TransactionsOrOutputsWithProof", p) : p \in OptionalLists}
      \cup {DataResponse("NumberOfStatesAtVersion", n) : n \in {0, 7, T_MAX}}
      \cup {DataResponse("ServerProtocolVersion", ServerProtocolVersion(n)) : n \in {1, 2}}
      \cup {DataResponse("StorageServerSummary", s) : s \in EnvelopeSummaries}

\* What a peer can send as a CompressedResponse: any label with any bytes.
WireLabels ==
    {"transactions_with_proof_compressed", "epoch_ending_ledger_infos_compressed",
     "storage_server_summary_compressed", "transactions_with_proof", ""}

WireData ==
    {compress(ser_DataResponse(d), MAX_APPLICATION_MESSAGE_SIZE).val :
        d \in {x \in DataResponses :
                 compress(ser_DataResponse(x), MAX_APPLICATION_MESSAGE_SIZE).ok}}
      \cup {<<>>, <<1, 0, 0, 0>>, <<1, 0, 0, 0, 156>>, <<2, 0, 0, 0, 252, 255>>}

EnvelopeInit ==
    /\ envelope = None
    /\ env_from = [origin |-> "none"]
    /\ env_call = NoCall
    /\ env_ret = None

NewResponse(data_response, perform_compression) ==
    /\ LET made == StorageServiceResponse_new(data_response, perform_compression)
       IN  /\ envelope' = IF made.ok THEN Some(made.val) ELSE None
           /\ env_from' = [origin |-> "new", data_response |-> data_response,
                           perform_compression |-> perform_compression]
           /\ env_call' = [name |-> "new"]
           /\ env_ret' = made
    /\ UNCHANGED <<range_vars, service_vars>>

\* #[derive(Deserialize)] of StorageServiceResponse accepts any label and
\* any bytes as a CompressedResponse.
ReceiveCompressed(label, data) ==
    /\ envelope' = Some(CompressedResponse(label, data))
    /\ env_from' = [origin |-> "wire"]
    /\ env_call' = [name |-> "deserialize"]
    /\ env_ret' = None
    /\ UNCHANGED <<range_vars, service_vars>>

GetDataResponse ==
    /\ IsSome(envelope)
    /\ env_call' = [name |-> "get_data_response"]
    /\ env_ret' = StorageServiceResponse_get_data_response(Unwrap(envelope))
    /\ UNCHANGED <<envelope, env_from>>
    /\ UNCHANGED <<range_vars, service_vars>>

GetLabel ==
    /\ IsSome(envelope)
    /\ env_call' = [name |-> "get_label"]
    /\ env_ret' = StorageServiceResponse_get_label(Unwrap(envelope))
    /\ UNCHANGED <<envelope, env_from>>
    /\ UNCHANGED <<range_vars, service_vars>>

IsCompressed ==
    /\ IsSome(envelope)
    /\ env_call' = [name |-> "is_compressed"]
    /\ env_ret' = StorageServiceResponse_is_compressed(Unwrap(envelope))
    /\ UNCHANGED <<envelope, env_from>>
    /\ UNCHANGED <<range_vars, service_vars>>

\* try_from consumes the response it is given: a clone of the envelope.
TryFromResponse(target) ==
    /\ IsSome(envelope)
    /\ env_call' = [name |-> "try_from", target |-> target]
    /\ env_ret' = TryFrom(target, Unwrap(envelope))
    /\ UNCHANGED <<envelope, env_from>>
    /\ UNCHANGED <<range_vars, service_vars>>

EnvelopeNext ==
    \/ \E d \in DataResponses, c \in BOOLEAN : NewResponse(d, c)
    \/ \E label \in WireLabels, data \in WireData : ReceiveCompressed(label, data)
    \/ GetDataResponse
    \/ GetLabel
    \/ IsCompressed
    \/ \E target \in Variants : TryFromResponse(target)

(***************************************************************************)
(* Specifications: the three components share no state, and each is        *)
(* explored on its own.                                                    *)
(***************************************************************************)
Init == RangeInit /\ ServiceInit /\ EnvelopeInit

Next == RangeNext \/ ServiceNext \/ EnvelopeNext

Spec == Init /\ [][Next]_vars

SpecRange == Init /\ [][RangeNext]_vars

SpecService == Init /\ [][ServiceNext]_vars

SpecEnvelope == Init /\ [][EnvelopeNext]_vars

(***************************************************************************)
(* Properties of CompleteDataRange (checked under SpecRange)               *)
(***************************************************************************)
\* lowest..highest is a range whose length T can represent.
ValidBounds(lowest, highest) ==
    lowest <= highest /\ highest - lowest + 1 <= T_MAX

\* C1: CompleteDataRange::new(lowest, highest) succeeds exactly when
\* lowest <= highest and highest - lowest + 1 is representable in T; on
\* success lowest(), highest() and len() return lowest, highest and
\* highest - lowest + 1; in every other case (lowest > highest, and
\* lowest = 0 with highest = T::MAX) it returns DegenerateRangeError;
\* new(5, 5) succeeds with length 1.
C1_NewSucceedsExactlyOnValidBounds ==
    call.name = "new" =>
        LET lowest == call.lowest
            highest == call.highest
        IN  /\ ret.ok <=> ValidBounds(lowest, highest)
            /\ ret.ok =>
                 /\ CompleteDataRange_lowest(ret.val) = lowest
                 /\ CompleteDataRange_highest(ret.val) = highest
                 /\ CompleteDataRange_len(ret.val) = Ok(highest - lowest + 1)
            /\ ~ret.ok => ret = Err(DegenerateRangeError)
            /\ lowest > highest => ret = Err(DegenerateRangeError)
            /\ (lowest = 0 /\ highest = T_MAX) => ret = Err(DegenerateRangeError)
            /\ (lowest = 5 /\ highest = 5) =>
                 ret.ok /\ CompleteDataRange_len(ret.val) = Ok(1)

\* new(5, 5) has succeeded and the range has length 1.
C1_Witness ==
    /\ call = [name |-> "new", lowest |-> 5, highest |-> 5]
    /\ ret = Ok(Range(5, 5))
    /\ CompleteDataRange_len(Unwrap(cur)) = Ok(1)

\* C2: every CompleteDataRange obtained through a public constructor (new,
\* from_len, from_genesis for any highest, deserialization) has
\* lowest <= highest and a representable length, so len() on a constructed
\* range never returns DegenerateRangeError.
C2_ConstructedRangesAreNeverDegenerate ==
    /\ IsSome(cur) =>
         /\ ValidBounds(Unwrap(cur).lowest, Unwrap(cur).highest)
         /\ CompleteDataRange_len(Unwrap(cur)).ok
    /\ call.name = "len" => ret.ok

\* C9: deserializing a CompleteDataRange re-validates the invariant: the
\* serialized pair (lowest, highest) deserializes exactly when
\* CompleteDataRange::new(lowest, highest) succeeds; a pair with
\* lowest > highest or an unrepresentable length is rejected and produces
\* no range; every range produced by new round-trips through
\* serialize/deserialize to an equal range.
C9_DeserializeRevalidates ==
    call.name = "deserialize" =>
        /\ \A lowest \in RangeValues, highest \in RangeValues :
              call.bytes = ser_u64(lowest) \o ser_u64(highest) =>
                 /\ ret.ok <=> CompleteDataRange_new(lowest, highest).ok
                 /\ ret.ok <=> ValidBounds(lowest, highest)
                 /\ ret.ok => ret.val = Range(lowest, highest)
        /\ ~ret.ok => cur = None
        /\ ret.ok => cur = Some(ret.val)
        /\ call.sent_by = "new" => ret = Ok(Unwrap(call.sent))

\* The pair (20, 10) came off the wire and was rejected.
C9_Witness ==
    /\ call.name = "deserialize"
    /\ call.sent_by = "wire"
    /\ call.bytes = ser_u64(20) \o ser_u64(10)
    /\ ~ret.ok
    /\ cur = None

\* C13: from_len(lowest, len) succeeds exactly when len >= 1 and
\* lowest + len - 1 is representable; on success lowest() = lowest,
\* highest() = lowest + len - 1 and len() = len; for len = 0 or an overflowing
\* highest it returns DegenerateRangeError rather than a wrapped or clamped
\* range.
C13_FromLen ==
    call.name = "from_len" =>
        LET fits == call.len >= 1 /\ call.lowest + call.len - 1 <= T_MAX
        IN  /\ ret.ok <=> fits
            /\ fits =>
                 /\ CompleteDataRange_lowest(ret.val) = call.lowest
                 /\ CompleteDataRange_highest(ret.val) = call.lowest + call.len - 1
                 /\ CompleteDataRange_len(ret.val) = Ok(call.len)
                 /\ cur = Some(ret.val)
            /\ ~fits => ret = Err(DegenerateRangeError) /\ cur = None

\* A length that would carry the highest version past T::MAX is refused.
C13_Witness ==
    /\ call = [name |-> "from_len", lowest |-> T_MAX - 1, len |-> 5]
    /\ ret = Err(DegenerateRangeError)

\* C14: a.superset_of(b) is true iff a.lowest <= b.lowest and
\* b.highest <= a.highest; every range is a superset of itself;
\* Range(10, 20) is a superset of Range(12, 18) and not of Range(5, 25).
C14_SupersetOf ==
    call.name = "superset_of" =>
        LET a == call.self
            b == call.other
        IN  /\ ret <=> (a.lowest <= b.lowest /\ b.highest <= a.highest)
            /\ a = b => ret = TRUE
            /\ (a = Range(10, 20) /\ b = Range(12, 18)) => ret = TRUE
            /\ (a = Range(10, 20) /\ b = Range(5, 25)) => ret = FALSE

\* A range is asked whether it is a superset of itself.
C14_Witness ==
    /\ call.name = "superset_of"
    /\ call.self = Range(10, 20)
    /\ call.other = Range(10, 20)
    /\ ret = TRUE

\* C15: superset_of agrees with contains: for ranges a and b built by new,
\* a.superset_of(b) iff every x that b contains a contains too; hence
\* superset_of is transitive and two ranges that are supersets of each other
\* are equal.  Every range of OtherRanges has its two ends in RangeValues, so
\* the items of RangeValues decide the inclusion over all of T.
C15_SupersetAgreesWithContains ==
    (call.name = "superset_of" /\ call.self_by = "new") =>
        LET a == call.self
            b == call.other
        IN  /\ ret <=> \A x \in RangeValues :
                          CompleteDataRange_contains(b, x)
                              => CompleteDataRange_contains(a, x)
            /\ ret => \A c \in OtherRanges :
                          CompleteDataRange_superset_of(b, c)
                              => CompleteDataRange_superset_of(a, c)
            /\ (ret /\ CompleteDataRange_superset_of(b, a)) => a = b

\* Range(10, 20) contains the lowest version of Range(12, 25) and not its
\* highest: it is not a superset.
C15_Witness ==
    /\ call.name = "superset_of"
    /\ call.self_by = "new"
    /\ call.self = Range(10, 20)
    /\ call.other = Range(12, 25)
    /\ ret = FALSE

(***************************************************************************)
(* Properties of can_service (checked under SpecService)                   *)
(***************************************************************************)
\* The held range is present and covers start..end.
HeldCovers(held, start, end) ==
    IsSome(held) /\ Unwrap(held).lowest <= start /\ end <= Unwrap(held).highest

\* The synced ledger info is present with a version >= proof_version.
SyncedCovers(data, proof_version) ==
    IsSome(data.synced_ledger_info) /\ Unwrap(data.synced_ledger_info) >= proof_version

\* C3: can_service for GetTransactionsWithProof (resp.
\* GetTransactionOutputsWithProof) is true iff start_version..end_version is
\* a valid range, the held transactions (resp. transaction_outputs) range
\* is present and a superset of it, and synced_ledger_info is present with
\* version >= proof_version, whatever the ProtocolMetadata limits; held
\* transactions [0,5000], synced version 4000, request [0,5000] with
\* proof_version 4500 is not serviceable.
C3_TransactionsWithProofServiceable ==
    (IsSome(request)
       /\ Unwrap(request).kind \in {"GetTransactionsWithProof",
                                    "GetTransactionOutputsWithProof"}) =>
        LET req == Unwrap(request)
            data == summary.data_summary
            held == IF req.kind = "GetTransactionsWithProof"
                    THEN data.transactions ELSE data.transaction_outputs
            expected == /\ ValidBounds(req.start_version, req.end_version)
                        /\ HeldCovers(held, req.start_version, req.end_version)
                        /\ SyncedCovers(data, req.proof_version)
        IN  /\ serviceable = Some(Returned(expected))
            /\ (/\ req = [kind |-> "GetTransactionsWithProof", start_version |-> 0,
                          end_version |-> 5000, proof_version |-> 4500]
                /\ data.transactions = Some(Range(0, 5000))
                /\ data.synced_ledger_info = Some(4000))
                  => serviceable = Some(Returned(FALSE))

\* The proof-gated scenario has been checked and refused.
C3_Witness ==
    /\ request = Some([kind |-> "GetTransactionsWithProof", start_version |-> 0,
                       end_version |-> 5000, proof_version |-> 4500])
    /\ summary.data_summary.transactions = Some(Range(0, 5000))
    /\ summary.data_summary.synced_ledger_info = Some(4000)
    /\ serviceable = Some(Returned(FALSE))

\* C4: DataSummary.can_service is a total boolean predicate: for every
\* summary (any synced ledger version of the unsigned domain, including
\* versions within OPTIMISTIC_FETCH_VERSION_DELTA of T::MAX) and every
\* request it returns true or false without failing or overflowing, and
\* every range request whose start..end fails range construction yields
\* false.
C4_CanServiceIsTotal ==
    IsSome(request) =>
        LET req == Unwrap(request)
            data == summary.data_summary
        IN  /\ ~Unwrap(serviceable).panic
            /\ Unwrap(serviceable).val \in BOOLEAN
            /\ (req.kind \in OptimisticKinds /\ IsSome(data.synced_ledger_info)) =>
                 Unwrap(data.synced_ledger_info) + OPTIMISTIC_FETCH_VERSION_DELTA <= T_MAX
            /\ (req.kind \in RangeKinds
                  /\ ~CompleteDataRange_new(req.start_version, req.end_version).ok) =>
                 serviceable = Some(Returned(FALSE))
            /\ (req.kind = "GetEpochEndingLedgerInfos"
                  /\ ~CompleteDataRange_new(req.start_epoch, req.expected_end_epoch).ok) =>
                 serviceable = Some(Returned(FALSE))

\* C5: for each optimistic request kind with known_version V, can_service
\* is true iff synced_ledger_info is present and its version + 25000 is
\* strictly greater than V, the held ranges being irrelevant; with synced
\* version 1000, V = 25999 is serviceable and V = 26000 is not.
C5_OptimisticServiceable ==
    (IsSome(request) /\ Unwrap(request).kind \in OptimisticKinds) =>
        LET req == Unwrap(request)
            synced == summary.data_summary.synced_ledger_info
            expected == IsSome(synced) /\ Unwrap(synced) + 25000 > req.known_version
        IN  /\ serviceable = Some(Returned(expected))
            /\ (synced = Some(1000) /\ req.known_version = 25999) =>
                 serviceable = Some(Returned(TRUE))
            /\ (synced = Some(1000) /\ req.known_version = 26000) =>
                 serviceable = Some(Returned(FALSE))

\* C10: can_service for GetTransactionsOrOutputsWithProof is true iff
\* start_version..end_version is a valid range, the held transactions range
\* and the held transaction_outputs range are both present and both
\* supersets of it, and synced_ledger_info is present with version >=
\* proof_version; equivalently, iff GetTransactionsWithProof and
\* GetTransactionOutputsWithProof with the same fields are both serviceable.
C10_TransactionsOrOutputsServiceable ==
    (IsSome(request) /\ Unwrap(request).kind = "GetTransactionsOrOutputsWithProof") =>
        LET req == Unwrap(request)
            data == summary.data_summary
            expected == /\ ValidBounds(req.start_version, req.end_version)
                        /\ HeldCovers(data.transactions, req.start_version, req.end_version)
                        /\ HeldCovers(data.transaction_outputs, req.start_version,
                                      req.end_version)
                        /\ SyncedCovers(data, req.proof_version)
            txns == StorageServerSummary_can_service(summary,
                        [req EXCEPT !.kind = "GetTransactionsWithProof"], "panic")
            outputs == StorageServerSummary_can_service(summary,
                        [req EXCEPT !.kind = "GetTransactionOutputsWithProof"], "panic")
        IN  /\ serviceable = Some(Returned(expected))
            /\ serviceable = Some(Returned(txns.val /\ outputs.val))

\* Transactions are held for the request and outputs are not: refused,
\* though the transactions alone could be served.
C10_Witness ==
    /\ request = Some([kind |-> "GetTransactionsOrOutputsWithProof", start_version |-> 0,
                       end_version |-> 5000, proof_version |-> 0])
    /\ summary.data_summary.transactions = Some(Range(0, 5000))
    /\ summary.data_summary.transaction_outputs = Some(Range(4500, T_MAX))
    /\ summary.data_summary.synced_ledger_info = Some(4000)
    /\ serviceable = Some(Returned(FALSE))

\* C11: can_service for GetStateValuesWithProof at version V is true iff
\* the held states range is present and contains V and synced_ledger_info
\* is present with version >= V; can_service for
\* GetNumberOfStatesAtVersion(V) is true iff the held states range is
\* present and contains V, without consulting the synced ledger info.
C11_StatesServiceable ==
    (IsSome(request) /\ Unwrap(request).kind \in StateKinds) =>
        LET req == Unwrap(request)
            data == summary.data_summary
            holds_version == /\ IsSome(data.states)
                             /\ Unwrap(data.states).lowest <= req.version
                             /\ req.version <= Unwrap(data.states).highest
        IN  /\ req.kind = "GetStateValuesWithProof" =>
                 serviceable = Some(Returned(holds_version
                                             /\ SyncedCovers(data, req.version)))
            /\ req.kind = "GetNumberOfStatesAtVersion" =>
                 serviceable = Some(Returned(holds_version))

\* The states at version 4500 are held but the synced version is 4000: the
\* state values are refused.
C11_Witness ==
    /\ request = Some([kind |-> "GetStateValuesWithProof", version |-> 4500])
    /\ summary.data_summary.states = Some(Range(0, 5000))
    /\ summary.data_summary.synced_ledger_info = Some(4000)
    /\ serviceable = Some(Returned(FALSE))

\* C12: can_service for GetEpochEndingLedgerInfos with start_epoch and
\* expected_end_epoch is true iff start_epoch..expected_end_epoch is a valid
\* range and the held epoch_ending_ledger_infos range is present and a
\* superset of it, independently of the synced ledger info and of the other
\* held ranges; GetServerProtocolVersion and GetStorageServerSummary are
\* serviceable under every summary, including the all-absent default one.
C12_EpochsAndMetadataServiceable ==
    IsSome(request) =>
        LET req == Unwrap(request)
            data == summary.data_summary
        IN  /\ req.kind = "GetEpochEndingLedgerInfos" =>
                 serviceable =
                    Some(Returned(/\ ValidBounds(req.start_epoch, req.expected_end_epoch)
                                  /\ HeldCovers(data.epoch_ending_ledger_infos,
                                                req.start_epoch, req.expected_end_epoch)))
            /\ req.kind \in MetadataKinds => serviceable = Some(Returned(TRUE))

\* Epochs 3..7 are asked of a summary that holds epochs 0..7 and nothing
\* else, not even a synced ledger info: serviceable.
C12_Witness ==
    /\ request = Some([kind |-> "GetEpochEndingLedgerInfos", start_epoch |-> 3,
                       expected_end_epoch |-> 7])
    /\ summary.data_summary = DataSummary(None, Some(Range(0, 7)), None, None, None)
    /\ serviceable = Some(Returned(TRUE))

(***************************************************************************)
(* Properties of the response envelope (checked under SpecEnvelope)        *)
(***************************************************************************)
\* The envelope the operations act on.
TheEnvelope == Unwrap(envelope)

\* The label of a variant's payloads.
LabelOf(variant) == DataResponse_get_label(DataResponse(variant, <<>>))

\* C6 (state part): for every DataResponse v and compress flag, whenever
\* StorageServiceResponse::new(v, compress) and the following
\* get_data_response() both succeed, get_data_response() returns a value
\* equal to v; is_compressed() equals compress.
C6_RoundTripState ==
    (IsSome(envelope) /\ env_from.origin = "new") =>
        /\ (env_call.name = "get_data_response" /\ env_ret.ok) =>
              env_ret.val = env_from.data_response
        /\ env_call.name = "is_compressed" =>
              env_ret = env_from.perform_compression

\* C6 (step part): get_data_response() leaves the envelope as it is, and
\* called again on the same envelope it returns the same result.
C6_RepeatedCall ==
    env_call'.name = "get_data_response" =>
        /\ envelope' = envelope
        /\ env_call.name = "get_data_response" => env_ret' = env_ret

\* C6: the round trip of StorageServiceResponse::new and
\* get_data_response() returns the payload the envelope was built from,
\* is_compressed() equals the compress flag, and repeated calls of
\* get_data_response() on one envelope return the same result.
C6_RoundTrip == []C6_RoundTripState /\ [][C6_RepeatedCall]_vars

\* A compressed envelope built by new has been decoded to its payload.
C6_Witness ==
    /\ IsSome(envelope)
    /\ env_from.origin = "new"
    /\ env_from.perform_compression
    /\ StorageServiceResponse_is_compressed(TheEnvelope)
    /\ env_call.name = "get_data_response"
    /\ env_ret = Ok(env_from.data_response)

\* C7: a typed extraction for the type of variant X applied to an envelope
\* (raw or compressed) whose payload is variant Y returns the inner payload
\* iff X = Y; when X differs from Y it returns UnexpectedResponseError
\* naming X's label as expected and Y's plain payload label as found
\* (extracting EpochChangeProof from TransactionsWithProof: expected
\* epoch_ending_ledger_infos, found transactions_with_proof), never a value
\* of the wrong type.
C7_TypedExtraction ==
    (IsSome(envelope) /\ env_call.name = "try_from") =>
        LET X == env_call.target
            payload == StorageServiceResponse_get_data_response(TheEnvelope)
        IN  /\ payload.ok =>
                 LET Y == payload.val.variant
                 IN  /\ env_ret.ok <=> X = Y
                     /\ X = Y => env_ret = Ok(payload.val.inner)
                     /\ X # Y =>
                          env_ret = Err(UnexpectedResponseError(
                                      "expected " \o LabelOf(X) \o ", found " \o LabelOf(Y)))
                     /\ (X = "EpochEndingLedgerInfos" /\ Y = "TransactionsWithProof") =>
                          env_ret = Err(UnexpectedResponseError(
                             "expected epoch_ending_ledger_infos, found transactions_with_proof"))
            /\ (env_from.origin = "new" /\ ~env_from.perform_compression) =>
                 payload = Ok(env_from.data_response)
            /\ ~payload.ok => ~env_ret.ok

\* EpochChangeProof was asked of a compressed TransactionsWithProof.
C7_Witness ==
    /\ IsSome(envelope)
    /\ StorageServiceResponse_is_compressed(TheEnvelope)
    /\ env_from.origin = "new"
    /\ env_from.data_response.variant = "TransactionsWithProof"
    /\ env_call = [name |-> "try_from", target |-> "EpochEndingLedgerInfos"]
    /\ env_ret = Err(UnexpectedResponseError(
                   "expected epoch_ending_ledger_infos, found transactions_with_proof"))

\* get_label() on a compressed envelope is the stored label, also when the
\* bytes do not decode; on a raw envelope it is the payload's own label.
LabelOfEnvelope ==
    /\ StorageServiceResponse_get_label(TheEnvelope) =
         IF TheEnvelope.tag = "CompressedResponse" THEN TheEnvelope.label
         ELSE DataResponse_get_label(TheEnvelope.data_response)
    /\ env_call.name = "get_label" =>
         env_ret = StorageServiceResponse_get_label(TheEnvelope)

\* The bytes of a compressed envelope, when they decode, decode to a
\* payload whose label with the compression suffix is the stored label.
StoredLabelMatchesPayload ==
    TheEnvelope.tag = "CompressedResponse" =>
        LET payload == StorageServiceResponse_get_data_response(TheEnvelope)
        IN  payload.ok =>
              TheEnvelope.label =
                 DataResponse_get_label(payload.val) \o COMPRESSION_SUFFIX_LABEL

\* C8 as stated: for every CompressedResponse envelope that can exist (built
\* by StorageServiceResponse::new with compression, or deserialized off the
\* wire), the decoded payload's get_label() equals the stored label with the
\* compression suffix removed; get_label() on a compressed envelope returns
\* the stored label, on a raw envelope the payload's own label.
C8_StoredLabelMatchesPayload_AnyEnvelope ==
    IsSome(envelope) => StoredLabelMatchesPayload /\ LabelOfEnvelope

\* C8 amended: for every CompressedResponse envelope built by
\* StorageServiceResponse::new with compression, the payload its bytes
\* decode to has a get_label() equal to the stored label with the
\* compression suffix removed; get_label() on a compressed envelope returns
\* the stored label, on a raw envelope the payload's own label.
C8_StoredLabelMatchesPayload_BuiltByNew ==
    IsSome(envelope) =>
        /\ env_from.origin = "new" => StoredLabelMatchesPayload
        /\ LabelOfEnvelope

\* A compressed envelope built by new has been asked its label, and its
\* bytes decode to a payload with that label less the suffix.
C8_Witness ==
    /\ IsSome(envelope)
    /\ env_from.origin = "new"
    /\ TheEnvelope.tag = "CompressedResponse"
    /\ env_call.name = "get_label"
    /\ env_ret = "transactions_with_proof_compressed"
    /\ StorageServiceResponse_get_data_response(TheEnvelope).ok
    /\ DataResponse_get_label(StorageServiceResponse_get_data_response(TheEnvelope).val)
         = "transactions_with_proof"

====
